---- MODULE Spec2Model ----
(***************************************************************************)
(* Model of script/check-coverage.py: run `forge coverage --report         *)
(* summary`, parse the table it prints, check the production contracts for *)
(* 100% on the four metrics, list the source contracts, exit 0 or 1.       *)
(*                                                                         *)
(* Text is a sequence of one-character strings, so that split, strip,      *)
(* startswith, the regular expression and float() are computed character   *)
(* by character as Python computes them.  A float is the pair <<n, d>> of  *)
(* the decimal n/d in lowest power-of-ten terms (d = 1, 10, 100, ...): for *)
(* the short decimals of a coverage table two floats are equal exactly     *)
(* when these pairs are.                                                   *)
(***************************************************************************)
EXTENDS Integers, Sequences, FiniteSets, TLC

VARIABLES
    pc,                 \* where main() is: "start", "parse", "check", "list", "exit"
    tool,               \* how subprocess.run ended: "none", "ok", "nonzero", "notstarted"
    table,              \* the rows the tool printed
    err_text,           \* e.stderr
    coverage_output,    \* result.stdout
    lines,              \* coverage_output.split('\n')
    li,                 \* the line the parsing loop is at
    coverage_data,      \* contract -> its four metrics
    all_pass,
    contracts_checked,
    ci,                 \* the contract the checking loop is at
    mi,                 \* the metric the inner loop is at (0: between contracts)
    keys,               \* sorted(coverage_data.keys())
    ki,                 \* the key the listing loop is at
    out,                \* what was printed, in order
    exit_code           \* the process's exit status (Running: none yet)

vars ==
    <<pc, tool, table, err_text, coverage_output, lines, li, coverage_data,
      all_pass, contracts_checked, ci, mi, keys, ki, out, exit_code>>

\* ------------------------------------------------------------------ bounds
\* Most rows the tool's table holds in one run.
MaxRows == 2

\* ------------------------------------------------------------ text helpers
Digits == {"0", "1", "2", "3", "4", "5", "6", "7", "8", "9"}

DigitVal(c) ==
    CASE c = "0" -> 0 [] c = "1" -> 1 [] c = "2" -> 2 [] c = "3" -> 3
      [] c = "4" -> 4 [] c = "5" -> 5 [] c = "6" -> 6 [] c = "7" -> 7
      [] c = "8" -> 8 [] c = "9" -> 9

\* The characters of the model in code-point order (sorted() compares these).
AsciiOrder ==
    <<"\n", " ", "%", "(", ")", "-", ".", "/",
      "0", "1", "2", "3", "4", "5", "6", "7", "8", "9",
      "A", "B", "C", "D", "E", "F", "G", "H", "I", "J", "K", "L", "M",
      "N", "O", "P", "Q", "R", "S", "T", "U", "V", "W", "X", "Y", "Z",
      "a", "b", "c", "d", "e", "f", "g", "h", "i", "j", "k", "l", "m",
      "n", "o", "p", "q", "r", "s", "t", "u", "v", "w", "x", "y", "z", "|">>

Ord(c) == CHOOSE i \in 1..Len(AsciiOrder) : AsciiOrder[i] = c

\* str.startswith(prefix)
StartsWith(s, prefix) ==
    /\ Len(s) >= Len(prefix)
    /\ SubSeq(s, 1, Len(prefix)) = prefix

\* `needle in s`
Contains(s, needle) ==
    \E i \in 1..(Len(s) - Len(needle) + 1) :
        SubSeq(s, i, i + Len(needle) - 1) = needle

\* str.split(sep) for a one-character separator: one part more than there
\* are separators, each the text between two neighbouring separators.
SepAt(s, sep, k) ==
    IF k = 0 THEN 0
    ELSE IF k > Cardinality({i \in 1..Len(s) : s[i] = sep}) THEN Len(s) + 1
    ELSE CHOOSE i \in 1..Len(s) :
            /\ s[i] = sep
            /\ Cardinality({j \in 1..i : s[j] = sep}) = k

Split(s, sep) ==
    [k \in 1..(Cardinality({i \in 1..Len(s) : s[i] = sep}) + 1) |->
        SubSeq(s, SepAt(s, sep, k - 1) + 1, SepAt(s, sep, k) - 1)]

\* str.strip(): whitespace off both ends.
Whitespace == {" ", "\n"}

RECURSIVE LStrip(_)
LStrip(s) ==
    IF s # <<>> /\ Head(s) \in Whitespace THEN LStrip(Tail(s)) ELSE s

RECURSIVE RStrip(_)
RStrip(s) ==
    IF s # <<>> /\ s[Len(s)] \in Whitespace
    THEN RStrip(SubSeq(s, 1, Len(s) - 1)) ELSE s

Strip(s) == RStrip(LStrip(s))

\* Lexicographic order of str by code point (what sorted() uses).
RECURSIVE StrLess(_, _)
StrLess(a, b) ==
    IF b = <<>> THEN FALSE
    ELSE IF a = <<>> THEN TRUE
    ELSE IF Head(a) = Head(b) THEN StrLess(Tail(a), Tail(b))
    ELSE Ord(Head(a)) < Ord(Head(b))

\* sorted(keys)
RECURSIVE Sorted(_)
Sorted(S) ==
    IF S = {} THEN <<>>
    ELSE LET m == CHOOSE x \in S : \A y \in S \ {x} : StrLess(x, y)
         IN  <<m>> \o Sorted(S \ {m})

\* ------------------------------------------------- the regular expression
\* Last index of the run of digits of s that starts at i (i - 1: no digit).
RECURSIVE DigitsEnd(_, _)
DigitsEnd(s, i) ==
    IF i <= Len(s) /\ s[i] \in Digits THEN DigitsEnd(s, i + 1) ELSE i - 1

\* Where a match of (\d+\.\d+)% that starts at i ends its group; 0: no match.
\* \d+ is greedy and no digit is a '.' or a '%', so the longest runs decide.
GroupEndAt(s, i) ==
    LET j == DigitsEnd(s, i) IN
    IF j >= i /\ j + 1 <= Len(s) /\ s[j + 1] = "."
    THEN LET k == DigitsEnd(s, j + 2) IN
         IF k >= j + 2 /\ k + 1 <= Len(s) /\ s[k + 1] = "%" THEN k ELSE 0
    ELSE 0

\* re.search(r'(\d+\.\d+)%', s).group(1), or <<>> when search gives None:
\* the leftmost match.
RECURSIVE SearchFrom(_, _)
SearchFrom(s, i) ==
    IF i > Len(s) THEN <<>>
    ELSE IF GroupEndAt(s, i) > 0 THEN SubSeq(s, i, GroupEndAt(s, i))
    ELSE SearchFrom(s, i + 1)

PctSearch(s) == SearchFrom(s, 1)

\* ------------------------------------------------------------------ float
RECURSIVE DigitsToNat(_, _)
DigitsToNat(ds, acc) ==
    IF ds = <<>> THEN acc
    ELSE DigitsToNat(Tail(ds), 10 * acc + DigitVal(Head(ds)))

RECURSIVE Pow10(_)
Pow10(n) == IF n = 0 THEN 1 ELSE 10 * Pow10(n - 1)

RECURSIVE Normal(_)
Normal(v) ==
    IF v[2] > 1 /\ v[1] % 10 = 0 THEN Normal(<<v[1] \div 10, v[2] \div 10>>)
    ELSE v

\* float("ddd.ddd")
Float(text) ==
    LET ps == Split(text, ".") IN
    Normal(<<DigitsToNat(ps[1] \o ps[2], 0), Pow10(Len(ps[2]))>>)

\* The int 0 the code uses when the pattern is not found.
Zero == <<0, 1>>

\* float(m.group(1)) if m else 0
PctOf(cell) ==
    IF PctSearch(cell) # <<>> THEN Float(PctSearch(cell)) ELSE Zero

\* Variant of IsFull: a threshold instead of the exact comparison.
IsFullMutant(value) == value[1] >= 99 * value[2]
\* value == 100.0
IsFull(value) == value[1] = 100 * value[2]

\* -------------------------------------------------------- program literals
CollectibleCastSol ==
    <<"s", "r", "c", "/", "C", "o", "l", "l", "e", "c", "t", "i", "b", "l", "e",
      "C", "a", "s", "t", ".", "s", "o", "l">>
MetadataSol ==
    <<"s", "r", "c", "/", "M", "e", "t", "a", "d", "a", "t", "a", ".", "s", "o", "l">>
MinterSol ==
    <<"s", "r", "c", "/", "M", "i", "n", "t", "e", "r", ".", "s", "o", "l">>
TransferValidatorSol ==
    <<"s", "r", "c", "/", "T", "r", "a", "n", "s", "f", "e", "r", "V", "a", "l",
      "i", "d", "a", "t", "o", "r", ".", "s", "o", "l">>
AuctionSol ==
    <<"s", "r", "c", "/", "A", "u", "c", "t", "i", "o", "n", ".", "s", "o", "l">>

PRODUCTION_CONTRACTS ==
    <<CollectibleCastSol, MetadataSol, MinterSol, TransferValidatorSol, AuctionSol>>

Tracked == {PRODUCTION_CONTRACTS[i] : i \in 1..Len(PRODUCTION_CONTRACTS)}

\* 'src/' and 'src/Counter.sol' of the source-contract listing
SrcPrefix == <<"s", "r", "c", "/">>
CounterSol ==
    <<"s", "r", "c", "/", "C", "o", "u", "n", "t", "e", "r", ".", "s", "o", "l">>

\* ' | ' and '-' of the row filter
SpPipeSp == <<" ", "|", " ">>
Dash == <<"-">>

\* The keys of a record of coverage_data, in insertion order (data.items()).
Metrics == <<"lines", "statements", "branches", "functions">>

\* len(parts) >= 6
MinParts == 6

\* sys.exit(0), sys.exit(1); an uncaught exception ends the interpreter with 1.
ExitOk == 0
ExitFail == 1
ExitUncaught == 1
\* exit_code while the process runs
Running == -1

\* ------------------------------------------ what the coverage tool can say
HelperSol ==
    <<"s", "r", "c", "/", "H", "e", "l", "p", "e", "r", ".", "s", "o", "l">>
MockSol ==
    <<"t", "e", "s", "t", "/", "M", "o", "c", "k", ".", "s", "o", "l">>
FileHdr == <<"F", "i", "l", "e">>
LinesHdr == <<"%", " ", "L", "i", "n", "e", "s">>
StmtsHdr == <<"%", " ", "S", "t", "a", "t", "e", "m", "e", "n", "t", "s">>
BranchesHdr == <<"%", " ", "B", "r", "a", "n", "c", "h", "e", "s">>
FuncsHdr == <<"%", " ", "F", "u", "n", "c", "s">>
Dashes == <<"-", "-", "-">>
TotalCell == <<"T", "o", "t", "a", "l">>
LabelCell == <<"1">>
Pct100 == <<"1", "0", "0", ".", "0", "0", "%", " ", "(", "1", "2", "/", "1", "2", ")">>
Pct9999 ==
    <<"9", "9", ".", "9", "9", "%", " ", "(", "9", "9", "9", "9", "/",
      "1", "0", "0", "0", "0", ")">>
Pct9250 == <<"9", "2", ".", "5", "0", "%", " ", "(", "3", "7", "/", "4", "0", ")">>
Pct0 == <<"0", ".", "0", "0", "%", " ", "(", "0", "/", "4", ")">>
PctOver == <<"1", "5", "0", ".", "0", "0", "%", " ", "(", "3", "/", "2", ")">>
PctNoDecimal == <<"1", "0", "0", "%">>
PctNA == <<"n", "/", "a">>
NoCell == <<>>

\* A row of the table: its cells, and whether a '|' closes it.
Row(cells, closed) == [cells |-> cells, closed |-> closed]

Rows ==
    { Row(<<FileHdr, LinesHdr, StmtsHdr, BranchesHdr, FuncsHdr>>, TRUE),
      Row(<<Dashes, Dashes, Dashes, Dashes, Dashes>>, TRUE),
      Row(<<TotalCell>>, TRUE),
      Row(<<MinterSol, Pct100, Pct100, Pct100, Pct100>>, TRUE),
      Row(<<MinterSol, Pct9999, Pct100, Pct100, Pct100>>, TRUE),
      Row(<<AuctionSol, Pct100, Pct100, Pct100, Pct100>>, TRUE),
      Row(<<AuctionSol, Pct100, Pct100, Pct9250, Pct100>>, TRUE),
      Row(<<HelperSol, Pct9250, Pct100, Pct0, Pct100>>, TRUE),
      Row(<<CounterSol, Pct0, Pct0, Pct100, Pct0>>, TRUE),
      Row(<<MockSol, Pct100, Pct9250, Pct100, Pct100>>, TRUE),
      Row(<<MinterSol, Pct100, Pct100, Pct100>>, FALSE),
      Row(<<MinterSol, Pct100, Pct100, Pct100>>, TRUE),
      Row(<<MetadataSol, PctNoDecimal, PctNA, Pct100, NoCell>>, TRUE),
      Row(<<MetadataSol, PctOver, Pct100, Pct100, Pct100>>, TRUE),
      Row(<<LabelCell, MinterSol, Pct100, Pct100, Pct100, Pct100>>, TRUE) }

\* The tables the tool prints: up to MaxRows rows.
Tables == UNION { [1..n -> Rows] : n \in 0..MaxRows }

\* "| c1 | c2 | ... |": each cell between spaces, after a '|'.
RECURSIVE RenderCells(_)
RenderCells(cells) ==
    IF cells = <<>> THEN <<>>
    ELSE <<"|", " ">> \o Head(cells) \o <<" ">> \o RenderCells(Tail(cells))

RenderRow(r) ==
    RenderCells(r.cells) \o (IF r.closed THEN <<"|">> ELSE <<>>)

\* The tool's stdout: every row on a line of its own.
RECURSIVE RenderTable(_)
RenderTable(t) ==
    IF t = <<>> THEN <<>>
    ELSE RenderRow(Head(t)) \o <<"\n">> \o RenderTable(Tail(t))

\* What the tool writes to stderr when it fails.
StderrTexts == {"compilation error", ""}

\* ------------------------------------------------------------ the parsing
\* Variant of RowRecord: the functions field is left out.
RowRecordMutant(parts) ==
    [lines      |-> PctOf(parts[3]),
     statements |-> PctOf(parts[4]),
     branches   |-> PctOf(parts[5])]
\* The record the code stores for a row: parts[2..5], counted from 0.
RowRecord(parts) ==
    [lines      |-> PctOf(parts[3]),
     statements |-> PctOf(parts[4]),
     branches   |-> PctOf(parts[5]),
     functions  |-> PctOf(parts[6])]

\* Variant of RowKey: the second cell, as if a label cell came first.
RowKeyMutant(parts) == Strip(parts[3])
\* contract = parts[1].strip()   (Python counts parts from 0)
RowKey(parts) == Strip(parts[2])

\* The conditions under which a line adds a record.
IsDataRow(line) ==
    /\ StartsWith(line, <<"|">>)
    /\ Contains(line, SpPipeSp)
    /\ Len(Split(line, "|")) >= MinParts
    /\ RowKey(Split(line, "|")) # <<>>
    /\ ~StartsWith(RowKey(Split(line, "|")), Dash)

\* Variant of Store: a key already present keeps its record.
StoreMutant(data, key, rec) ==
    [k \in DOMAIN data \cup {key} |-> IF k \in DOMAIN data THEN data[k] ELSE rec]
\* coverage_data[contract] = {...}
Store(data, key, rec) ==
    [k \in DOMAIN data \cup {key} |-> IF k = key THEN rec ELSE data[k]]

\* One turn of the loop over the lines.
ParseLine(data, line) ==
    IF IsDataRow(line)
    THEN Store(data, RowKey(Split(line, "|")), RowRecord(Split(line, "|")))
    ELSE data

EmptyData == [k \in {} |-> Zero]

\* ----------------------------------------------------------------- output
\* One printed item: its kind, and the contract, metric, value, mark and text
\* it carries (colours and number formatting are left out).
Ev(k, c, m, v, ok, t) == [k |-> k, c |-> c, m |-> m, v |-> v, ok |-> ok, t |-> t]

Plain(k) == Ev(k, <<>>, "", Zero, TRUE, "")

Banner == Plain("checking")                         \* line 23
RunFailed == Plain("failed to run")                 \* line 35
StderrText(t) == Ev("stderr", <<>>, "", Zero, FALSE, t)        \* line 36
Traceback == Plain("traceback")                     \* the interpreter's report
ReportHeader == Plain("coverage report")            \* lines 63-64
FileHeader(c) == Ev("file", c, "", Zero, TRUE, "")  \* line 72
MetricLine(c, m, v, ok) == Ev("metric", c, m, v, ok, "")       \* lines 77, 79
ListHeader == Plain("all source contracts")         \* lines 83-84
NotTracked(c) == Ev("not tracked", c, "", Zero, TRUE, "")      \* line 89
StatusLine(c, ok) == Ev("status", c, "", Zero, ok, "")         \* line 94
ListEnd == Plain("end of list")                     \* line 96
CheckFailed == Plain("coverage check failed")       \* line 100
MustBeFull == Plain("must have 100%")               \* line 101
CheckPassed == Plain("all have 100%")               \* line 104

\* ----------------------------------------------------------- the program
Init ==
    /\ pc = "start"
    /\ tool = "none"
    /\ table = <<>>
    /\ err_text = ""
    /\ coverage_output = <<>>
    /\ lines = <<>>
    /\ li = 1
    /\ coverage_data = EmptyData
    /\ all_pass = TRUE
    /\ contracts_checked = <<>>
    /\ ci = 1
    /\ mi = 0
    /\ keys = <<>>
    /\ ki = 1
    /\ out = <<>>
    /\ exit_code = Running

\* Variant of RunFailureOutput: the run goes on to the report.
RunFailureOutputMutant(t) == <<RunFailed, StderrText(t), ReportHeader>>
\* What the except branch prints.
RunFailureOutput(t) == <<RunFailed, StderrText(t)>>

\* forge ran and returned 0: its stdout is kept and split into lines.
RunForgeOk(t) ==
    /\ pc = "start"
    /\ tool' = "ok"
    /\ table' = t
    /\ coverage_output' = RenderTable(t)
    /\ lines' = Split(RenderTable(t), "\n")
    /\ li' = 1
    /\ coverage_data' = EmptyData
    /\ out' = <<Banner>>
    /\ pc' = "parse"
    /\ UNCHANGED <<err_text, all_pass, contracts_checked, ci, mi, keys, ki, exit_code>>

\* forge returned a non-zero status: check=True raises CalledProcessError.
RunForgeNonZero(t) ==
    /\ pc = "start"
    /\ tool' = "nonzero"
    /\ err_text' = t
    /\ out' = <<Banner>> \o RunFailureOutput(t)
    /\ exit_code' = ExitFail
    /\ pc' = "exit"
    /\ UNCHANGED <<table, coverage_output, lines, li, coverage_data, all_pass,
                   contracts_checked, ci, mi, keys, ki>>

\* forge could not be started: subprocess.run raises an OSError
\* (FileNotFoundError, PermissionError), which the except clause does not name.
RunForgeNotStarted ==
    /\ pc = "start"
    /\ tool' = "notstarted"
    /\ out' = <<Banner, Traceback>>
    /\ exit_code' = ExitUncaught
    /\ pc' = "exit"
    /\ UNCHANGED <<table, err_text, coverage_output, lines, li, coverage_data,
                   all_pass, contracts_checked, ci, mi, keys, ki>>

\* for line in lines: ...
ParseNext ==
    /\ pc = "parse"
    /\ li <= Len(lines)
    /\ coverage_data' = ParseLine(coverage_data, lines[li])
    /\ li' = li + 1
    /\ UNCHANGED <<pc, tool, table, err_text, coverage_output, lines, all_pass,
                   contracts_checked, ci, mi, keys, ki, out, exit_code>>

\* The lines are used up: the report header, all_pass = True, checked = [].
BeginCheck ==
    /\ pc = "parse"
    /\ li > Len(lines)
    /\ out' = Append(out, ReportHeader)
    /\ all_pass' = TRUE
    /\ contracts_checked' = <<>>
    /\ ci' = 1
    /\ mi' = 0
    /\ pc' = "check"
    /\ UNCHANGED <<tool, table, err_text, coverage_output, lines, li,
                   coverage_data, keys, ki, exit_code>>

\* data.items(): the keys of the record in insertion order.
Items(data) == SelectSeq(Metrics, LAMBDA m : m \in DOMAIN data)

\* for contract in PRODUCTION_CONTRACTS: if contract in coverage_data: ...
CheckContract ==
    /\ pc = "check"
    /\ mi = 0
    /\ ci <= Len(PRODUCTION_CONTRACTS)
    /\ IF PRODUCTION_CONTRACTS[ci] \in DOMAIN coverage_data
       THEN /\ contracts_checked' = Append(contracts_checked, PRODUCTION_CONTRACTS[ci])
            /\ out' = Append(out, FileHeader(PRODUCTION_CONTRACTS[ci]))
            /\ mi' = 1
            /\ ci' = ci
       ELSE /\ ci' = ci + 1
            /\ UNCHANGED <<contracts_checked, out, mi>>
    /\ UNCHANGED <<pc, tool, table, err_text, coverage_output, lines, li,
                   coverage_data, all_pass, keys, ki, exit_code>>

\* all_pass after a metric of this value: only ever set to False.
AllPassAfter(ap, value) == IF IsFull(value) THEN ap ELSE FALSE

\* Variant of NextMetric: the loop breaks at the first failing metric.
NextMetricMutant(m, n, value) == IF m < n /\ IsFull(value) THEN m + 1 ELSE 0
\* The metric the inner loop turns to after metric number m of n (0: the
\* loop is over), whatever the value was.
NextMetric(m, n, value) == IF m < n THEN m + 1 ELSE 0

\* for metric, value in data.items(): ...
CheckMetric ==
    /\ pc = "check"
    /\ mi >= 1
    /\ LET c == PRODUCTION_CONTRACTS[ci]
           items == Items(coverage_data[c])
           value == coverage_data[c][items[mi]]
           nxt == NextMetric(mi, Len(items), value)
       IN  /\ out' = Append(out, MetricLine(c, items[mi], value, IsFull(value)))
           /\ all_pass' = AllPassAfter(all_pass, value)
           /\ mi' = nxt
           /\ ci' = IF nxt = 0 THEN ci + 1 ELSE ci
    /\ UNCHANGED <<pc, tool, table, err_text, coverage_output, lines, li,
                   coverage_data, contracts_checked, keys, ki, exit_code>>

\* The contracts are used up: the list's header, and the keys sorted.
BeginList ==
    /\ pc = "check"
    /\ mi = 0
    /\ ci > Len(PRODUCTION_CONTRACTS)
    /\ out' = Append(out, ListHeader)
    /\ keys' = Sorted(DOMAIN coverage_data)
    /\ ki' = 1
    /\ pc' = "list"
    /\ UNCHANGED <<tool, table, err_text, coverage_output, lines, li,
                   coverage_data, all_pass, contracts_checked, ci, mi, exit_code>>

\* Variant of IsListedSource: another file is the one left out.
IsListedSourceMutant(c) == StartsWith(c, SrcPrefix) /\ c # HelperSol
\* contract.startswith('src/') and contract != 'src/Counter.sol'
IsListedSource(c) == StartsWith(c, SrcPrefix) /\ c # CounterSol

InSeq(x, s) == \E i \in 1..Len(s) : s[i] = x

\* all(v == 100.0 for v in data.values())
All100(data) == \A m \in DOMAIN data : IsFull(data[m])

\* What the listing prints for one key.
ListEntry(c, data, checked) ==
    IF ~IsListedSource(c) THEN <<>>
    ELSE IF ~InSeq(c, PRODUCTION_CONTRACTS) THEN <<NotTracked(c)>>
    ELSE IF InSeq(c, checked) THEN <<StatusLine(c, All100(data[c]))>>
    ELSE <<>>

\* for contract in sorted(coverage_data.keys()): ...
ListNext ==
    /\ pc = "list"
    /\ ki <= Len(keys)
    /\ out' = out \o ListEntry(keys[ki], coverage_data, contracts_checked)
    /\ ki' = ki + 1
    /\ UNCHANGED <<pc, tool, table, err_text, coverage_output, lines, li,
                   coverage_data, all_pass, contracts_checked, ci, mi, keys,
                   exit_code>>

\* Variant of FinalCode: the verdict is not carried to the exit code.
FinalCodeMutant(ap) == ExitOk
\* sys.exit(1) if not all_pass else sys.exit(0)
FinalCode(ap) == IF ~ap THEN ExitFail ELSE ExitOk

FinalOutput(ap) ==
    IF ~ap THEN <<CheckFailed, MustBeFull>> ELSE <<CheckPassed>>

\* The keys are used up: the closing rule, the final result, the exit.
Finish ==
    /\ pc = "list"
    /\ ki > Len(keys)
    /\ out' = Append(out, ListEnd) \o FinalOutput(all_pass)
    /\ exit_code' = FinalCode(all_pass)
    /\ pc' = "exit"
    /\ UNCHANGED <<tool, table, err_text, coverage_output, lines, li,
                   coverage_data, all_pass, contracts_checked, ci, mi, keys, ki>>

Next ==
    \/ \E t \in Tables : RunForgeOk(t)
    \/ \E t \in StderrTexts : RunForgeNonZero(t)
    \/ RunForgeNotStarted
    \/ ParseNext
    \/ BeginCheck
    \/ CheckContract
    \/ CheckMetric
    \/ BeginList
    \/ ListNext
    \/ Finish

Spec == Init /\ [][Next]_vars

\* ================================================================ claims
\* What the claims are stated with.  None of this is read by the actions.

\* The number a metric cell of the table shows (none, or no decimal: 0.0).
ShownPct(cell) ==
    CASE cell = Pct100 -> <<100, 1>>
      [] cell = Pct9999 -> <<9999, 100>>
      [] cell = Pct9250 -> <<925, 10>>
      [] cell = PctOver -> <<150, 1>>
      [] OTHER -> <<0, 1>>

CellAt(cells, k) == IF k <= Len(cells) THEN cells[k] ELSE NoCell

\* The record a row should give when its metric cells start at cell `from`.
ShownRecord(cells, from) ==
    [lines      |-> ShownPct(CellAt(cells, from)),
     statements |-> ShownPct(CellAt(cells, from + 1)),
     branches   |-> ShownPct(CellAt(cells, from + 2)),
     functions  |-> ShownPct(CellAt(cells, from + 3))]

FourMetrics == {"lines", "statements", "branches", "functions"}

Hundred == <<100, 1>>

\* Every tracked file of the report is at exactly 100.0 on its four metrics.
VerdictPass(data) ==
    \A c \in Tracked \cap DOMAIN data :
        /\ FourMetrics \subseteq DOMAIN data[c]
        /\ \A m \in FourMetrics : data[c][m] = Hundred

ToolOk == tool = "ok"
Parsed == ToolOk /\ pc \in {"check", "list", "exit"}
Exited == pc = "exit"

Printed(e) == \E i \in 1..Len(out) : out[i] = e
PrintedKind(k) == \E i \in 1..Len(out) : out[i].k = k

BreakdownKinds ==
    {"coverage report", "file", "metric", "all source contracts", "not tracked",
     "status", "end of list", "coverage check failed", "must have 100%",
     "all have 100%"}

\* ---------------------------------------------------------------- C1
\* C1: a run that has ended has exit code 0 or 1; it is 0 exactly when the
\* tool ran successfully and no tracked file of the report has a metric other
\* than 100.0, and 1 when the verdict is fail or the tool invocation failed.
C1_ExitCodeContract ==
    /\ Exited <=> exit_code # -1
    /\ Exited =>
        /\ exit_code \in {0, 1}
        /\ exit_code = 0 <=> (ToolOk /\ VerdictPass(coverage_data))
        /\ (~ToolOk \/ ~VerdictPass(coverage_data)) => exit_code = 1

C1_Witness ==
    /\ Exited /\ ToolOk /\ exit_code = 1
    /\ AuctionSol \in DOMAIN coverage_data
    /\ coverage_data[AuctionSol].branches = <<925, 10>>

\* ---------------------------------------------------------------- C2
\* C2: the verdict of the evaluation loop is pass exactly when every tracked
\* file present in the report has all four metrics equal to 100.0; absent
\* tracked files do not fail it; 99.99 fails and 100.00 passes.
C2_VerdictIffAllFull ==
    (ToolOk /\ pc \in {"list", "exit"}) =>
        (all_pass <=> VerdictPass(coverage_data))

C2_Witness ==
    /\ Exited /\ ToolOk /\ ~all_pass
    /\ DOMAIN coverage_data = {MinterSol}
    /\ coverage_data[MinterSol] =
         [lines |-> <<9999, 100>>, statements |-> Hundred,
          branches |-> Hundred, functions |-> Hundred]

\* ---------------------------------------------------------------- C3
\* C3: when the tool returns a non-zero status the program prints the
\* captured stderr and exits 1, having parsed no row and printed nothing of
\* the coverage breakdown.
C3_NonZeroStopsRun ==
    tool = "nonzero" =>
        /\ Exited /\ exit_code = 1
        /\ Len(out) = 3
        /\ out[3].k = "stderr" /\ out[3].t = err_text
        /\ \A i \in 1..Len(out) : out[i].k \notin BreakdownKinds
        /\ coverage_data = EmptyData /\ lines = <<>> /\ li = 1

C3_Witness ==
    tool = "nonzero" /\ err_text = "compilation error" /\ Exited /\ Len(out) = 3

\* ---------------------------------------------------------------- C4
\* C4: when the tool cannot be started at all, the failure is reported as in
\* the non-zero case: the failure message and the captured error text are
\* printed and the exit code is 1.
C4_NotStartedHandled ==
    tool = "notstarted" =>
        /\ exit_code = 1
        /\ PrintedKind("failed to run")
        /\ PrintedKind("stderr")
        /\ ~PrintedKind("traceback")

\* ---------------------------------------------------------------- C5
\* A row of a tracked file that lacks a metric cell, or has one without a
\* percentage in it.
LacksMetric(r) ==
    /\ r.cells[1] \in Tracked
    /\ \/ Len(r.cells) < 5
       \/ \E k \in 2..5 : r.cells[k] \in {NoCell, PctNoDecimal, PctNA}

LastOfItsPath(t, i) ==
    \A j \in (i + 1)..Len(t) :
        \A k \in 1..Len(t[j].cells) : t[j].cells[k] # t[i].cells[1]

\* C5: if the row of a tracked file lacks one of its four metric cells, the
\* metric counts as 0.0 and the verdict is fail (exit code 1), also when the
\* row is shorter than a full data row.
C5_MissingCellFails ==
    (Exited /\ ToolOk) =>
        \A i \in 1..Len(table) :
            (LacksMetric(table[i]) /\ LastOfItsPath(table, i)) => exit_code = 1

\* ---------------------------------------------------------------- C6
\* The table without the rows of files that are not tracked.
OnlyTracked(t) == SelectSeq(t, LAMBDA r : r.cells[1] \in Tracked)

RECURSIVE ParseAll(_, _)
ParseAll(ls, data) ==
    IF ls = <<>> THEN data ELSE ParseAll(Tail(ls), ParseLine(data, Head(ls)))

VerdictUnaffected ==
    (exit_code = 0) <=>
        VerdictPass(ParseAll(Split(RenderTable(OnlyTracked(table)), "\n"), EmptyData))

\* C6 as stated: every file of the report that begins with 'src/' and is not
\* tracked is listed as not tracked, and such files never change the verdict.
C6_EverySrcFileListed ==
    (Exited /\ ToolOk) =>
        /\ \A c \in DOMAIN coverage_data :
              (StartsWith(c, <<"s", "r", "c", "/">>) /\ c \notin Tracked)
                  => Printed(NotTracked(c))
        /\ VerdictUnaffected

\* C6, amended: 'src/Counter.sol' is skipped by the listing; every other
\* untracked file of the report that begins with 'src/' is listed as not
\* tracked, nothing else is, and untracked files never change the verdict.
C6_SrcFilesButCounterListed ==
    (Exited /\ ToolOk) =>
        /\ \A c \in DOMAIN coverage_data \cup {CounterSol, MockSol} :
              Printed(NotTracked(c)) <=>
                  /\ c \in DOMAIN coverage_data
                  /\ StartsWith(c, <<"s", "r", "c", "/">>)
                  /\ c \notin Tracked
                  /\ c # CounterSol
        /\ VerdictUnaffected

C6_Witness ==
    /\ Exited /\ ToolOk
    /\ {HelperSol, MinterSol} \subseteq DOMAIN coverage_data
    /\ Printed(NotTracked(HelperSol))
    /\ exit_code = 0

\* ---------------------------------------------------------------- C7
MetricEvents == {i \in 1..Len(out) : out[i].k = "metric"}

\* C7: failures are accumulated: every metric of every tracked file found is
\* evaluated and annotated, also after a failure; the flag, once False, stays
\* False (it is the conjunction of the annotations so far); and the process
\* exits only after the breakdown and the source-contract list are printed.
C7_Accumulated ==
    /\ Parsed => (all_pass <=> \A i \in MetricEvents : out[i].ok)
    /\ (ToolOk /\ pc \in {"list", "exit"}) =>
          \A c \in Tracked \cap DOMAIN coverage_data : \A m \in FourMetrics :
              Printed(MetricLine(c, m, coverage_data[c][m],
                                 coverage_data[c][m] = Hundred))
    /\ (ToolOk /\ exit_code # -1) =>
          \E a, b \in 1..Len(out) :
              /\ a < b
              /\ out[a].k = "all source contracts"
              /\ out[b].k = "end of list"
              /\ \A i \in MetricEvents : i < a
              /\ \A i \in 1..Len(out) :
                    out[i].k \in {"not tracked", "status"} => (a < i /\ i < b)
              /\ \A i \in 1..Len(out) :
                    out[i].k \in {"coverage check failed", "all have 100%"} => i > b

C7_Witness ==
    /\ Exited /\ ToolOk /\ exit_code = 1
    /\ \E i, j \in MetricEvents :
          /\ i < j
          /\ out[i].c = MetadataSol /\ ~out[i].ok /\ out[i].m = "lines"
          /\ out[j].c = AuctionSol /\ out[j].ok /\ out[j].m = "functions"

\* ---------------------------------------------------------------- C8
\* The row the parsing loop has just dealt with (line k of the output is row
\* k of the table).
JustParsed == pc = "parse" /\ li >= 2 /\ li - 1 <= Len(table)

IsPathCell(cell) == cell # <<>> /\ cell[1] # "-"

\* C8 as stated: a row '| label | file | lines | statements | branches |
\* functions |' adds a record keyed by the file with the four percentages.
C8_LabelledRowParsed ==
    JustParsed =>
        LET r == table[li - 1] IN
        (Len(r.cells) >= 6 /\ IsPathCell(r.cells[2])) =>
            /\ r.cells[2] \in DOMAIN coverage_data
            /\ coverage_data[r.cells[2]] = ShownRecord(r.cells, 3)

\* C8, amended: the file path is the first cell, with no label cell before
\* it: a row '| file | lines | statements | branches | functions | ...' adds
\* a record keyed by the file whose four values are the percentages of the
\* four cells after it, 0.0 for an absent or malformed one.
C8_RowParsed ==
    JustParsed =>
        LET r == table[li - 1] IN
        (Len(r.cells) >= 5 /\ IsPathCell(r.cells[1])) =>
            /\ r.cells[1] \in DOMAIN coverage_data
            /\ coverage_data[r.cells[1]] = ShownRecord(r.cells, 2)

C8_Witness ==
    /\ JustParsed
    /\ table[li - 1].cells = <<AuctionSol, Pct100, Pct100, Pct9250, Pct100>>
    /\ coverage_data[AuctionSol].branches = <<925, 10>>

\* ---------------------------------------------------------------- C9
AllCells(t) ==
    UNION {{t[i].cells[k] : k \in 1..Len(t[i].cells)} : i \in 1..Len(t)}

\* C9 as stated: every record has the four metric fields, each in [0, 100].
C9_FieldsInRange ==
    \A c \in DOMAIN coverage_data :
        /\ DOMAIN coverage_data[c] = FourMetrics
        /\ \A m \in FourMetrics :
              /\ coverage_data[c][m][1] >= 0
              /\ coverage_data[c][m][1] <= 100 * coverage_data[c][m][2]

\* C9, amended: every record has the four metric fields, each a number that
\* is not negative; it is at most 100 when no cell of the output shows a
\* percentage above 100 (the parser does not clamp).
C9_FieldsPresentNonNegative ==
    \A c \in DOMAIN coverage_data :
        /\ DOMAIN coverage_data[c] = FourMetrics
        /\ \A m \in FourMetrics :
              /\ coverage_data[c][m][1] >= 0
              /\ coverage_data[c][m][2] >= 1
              /\ (\A cell \in AllCells(table) : ShownPct(cell)[1] <= 100 * ShownPct(cell)[2])
                    => coverage_data[c][m][1] <= 100 * coverage_data[c][m][2]

C9_Witness ==
    /\ pc = "parse"
    /\ MetadataSol \in DOMAIN coverage_data
    /\ coverage_data[MetadataSol] =
         [lines |-> <<0, 1>>, statements |-> <<0, 1>>,
          branches |-> Hundred, functions |-> <<0, 1>>]

\* ---------------------------------------------------------------- C10
\* The rows that add a record: a path and at least four more parts after it.
AddsRecord(r) ==
    /\ IsPathCell(r.cells[1])
    /\ Len(r.cells) + (IF r.closed THEN 1 ELSE 0) >= 5

RowsOf(t, c) == {i \in 1..Len(t) : AddsRecord(t[i]) /\ t[i].cells[1] = c}

LastRowOf(t, c) == CHOOSE i \in RowsOf(t, c) : \A j \in RowsOf(t, c) : j <= i

\* C10: of several rows with the same path the last one decides: the report
\* holds one record per path, that of the last row, and the verdict of a
\* tracked file is that of its last row.
C10_LastRowWins ==
    Parsed =>
        /\ \A c \in DOMAIN coverage_data :
              /\ RowsOf(table, c) # {}
              /\ coverage_data[c] = ShownRecord(table[LastRowOf(table, c)].cells, 2)
        /\ Exited =>
              (exit_code = 0 <=>
                  \A c \in Tracked : RowsOf(table, c) # {} =>
                      \A m \in FourMetrics :
                          ShownRecord(table[LastRowOf(table, c)].cells, 2)[m] = Hundred)

C10_Witness ==
    /\ Exited /\ ToolOk /\ exit_code = 0
    /\ Len(table) = 2
    /\ table[1].cells = <<MinterSol, Pct9999, Pct100, Pct100, Pct100>>
    /\ table[2].cells = <<MinterSol, Pct100, Pct100, Pct100, Pct100>>

====
